---- MODULE Spec2Model ----
(***************************************************************************)
(* Open-addressing hash table (HashMap / HashSet) with pluggable probing,  *)
(* tombstone deletion, automatic growth and slot-order iteration.          *)
(* The model follows src/include/hash_map.h and src/include/policy.h; the  *)
(* HashSet of src/include/hash_set.h runs the same engine on bare keys.    *)
(* Vectors are functions over 0..n-1 so that indices are the code's.       *)
(* size_type arithmetic stays far below 2^64 at the bounds used here, and  *)
(* the float load factor is exact for these small integers, so both are    *)
(* modelled with unbounded integers / exact fractions.                     *)
(***************************************************************************)
EXTENDS Integers, Sequences, FiniteSets, TLC

\* ---------------------------------------------------------------- bounds
MaxKey   == 2      \* keys are 0..MaxKey
MaxVal   == 2      \* mapped values are 1..MaxVal
MaxHint  == 2      \* expected_max_size given to a constructor
MaxCount == 3      \* argument of rehash / reserve
MaxCap   == 5      \* operations that would grow map_max_size beyond this are not issued
MaxErase == 2      \* erase calls (elements, for a range) on one table before it is cleared or reassigned
MaxMod   == 8      \* modulus given to a probing policy object on its own
MaxAdvance == 4    \* advances of a probing policy object on its own

Keys   == 0..MaxKey
Vals   == 1..MaxVal

VARIABLES
    map_size,       \* HashMap::map_size
    map_max_size,   \* HashMap::map_max_size
    hash_map,       \* HashMap::hash_map : vector<optional<value_type>>
    deleted,        \* HashMap::deleted  : vector<bool>
    first_ind,      \* HashMap::first_ind
    policy,         \* the CollisionPolicy template argument
    fault,          \* "none", or how the last call failed to return
    installed,      \* history: key -> value last installed by an insertion, NoVal once erased / cleared
    erases,         \* history: erase calls since construction, clear or assignment
    hset,           \* a HashSet<Key> with the same hasher, policy and hint, given the same calls
    probe,          \* a probing policy object used on its own, with its start, advances and last result
    fresh,          \* history: construction hint and rehash count while only new keys were inserted
    last            \* history: the last call, its key, result, slot and number of rehashes it ran

vars == <<map_size, map_max_size, hash_map, deleted, first_ind, policy, fault,
          installed, erases, hset, probe, fresh, last>>

\* ------------------------------------------------------------- data types
\* std::optional<value_type>: disengaged, or a (key, value) pair
nullopt == [occ |-> FALSE, key |-> -1, val |-> 0]

\* "no value": what the history holds for a key that is not in the table
NoVal == nullopt.val

Entry(k, v) == [occ |-> TRUE, key |-> k, val |-> v]

Min(a, b) == IF a < b THEN a ELSE b

\* std::vector::size()
VecSize(vec) == Cardinality(DOMAIN vec)

\* Hash: the hasher template argument, any function of the key.  This one
\* sends keys 0,1 to 3 and keys 2,3 to 4 (and so on), so that keys collide
\* at every table length and probing chains overlap and wrap around.
map_hasher(k) == 3 + (k \div 2)

\* Equal = std::equal_to<Key>
map_equal(a, b) == a = b

\* The object as a value: the five data members plus, for the call in
\* progress, the number of rehash() calls it ran and whether it failed to return.
Self == [map_size |-> map_size, map_max_size |-> map_max_size,
         hash_map |-> hash_map, deleted |-> deleted, first_ind |-> first_ind,
         rehashes |-> 0, fault |-> "none"]

\* explicit HashMap(size_type expected_max_size)
HashMap(expected_max_size) ==
    [map_size |-> 0, map_max_size |-> expected_max_size,
     hash_map |-> [i \in 0..(expected_max_size * 2 - 1) |-> nullopt],
     deleted  |-> [i \in 0..(expected_max_size * 2 - 1) |-> TRUE],
     first_ind |-> expected_max_size * 2,
     rehashes |-> 0, fault |-> "none"]

size(t) == t.map_size

empty(t) == t.map_size = 0

max_size(t) == t.map_max_size

bucket_count(t) == t.map_max_size * 2

\* end() / cend(): the index of the end iterator
end(t) == t.map_max_size * 2

\* begin() / cbegin(): the index of the begin iterator
begin(t) == t.first_ind

\* a slot is live iff it is occupied and not tombstoned
IsLive(t, i) == t.hash_map[i].occ /\ ~t.deleted[i]

LiveSlots(t) == {i \in DOMAIN t.hash_map : IsLive(t, i)}

\* ------------------------------------------------------ probing policies
LinearProbing(start, mod) == [current |-> start, mod |-> mod, step_number |-> 1]

QuadraticProbing(start, mod) == [current |-> start, mod |-> mod, step_number |-> 1]

CollisionPolicy(start, mod) ==
    IF policy = "linear" THEN LinearProbing(start, mod) ELSE QuadraticProbing(start, mod)

\* LinearProbing::operator++ returning the same candidate again
LinearNext_no_advance(p) == [p EXCEPT !.current = p.current % p.mod]

\* LinearProbing::operator++
LinearNext(p) == [p EXCEPT !.current = (p.current + 1) % p.mod]

\* QuadraticProbing::operator++ adding the step instead of its square
QuadraticNext_unsquared(p) ==
    [p EXCEPT !.current = (p.current + p.step_number) % p.mod,
              !.step_number = p.step_number + 1]

\* QuadraticProbing::operator++
QuadraticNext(p) ==
    [p EXCEPT !.current = (p.current + p.step_number * p.step_number) % p.mod,
              !.step_number = p.step_number + 1]

PolicyNext(p) == IF policy = "linear" THEN LinearNext(p) ELSE QuadraticNext(p)

\* Number of advances after which the walk has provably entered a cycle:
\* the linear policy is back at its start after mod advances with the same
\* state; the quadratic one repeats its visited indices with period 6 * mod.
ProbeLimit(mod) == IF policy = "linear" THEN mod ELSE 6 * mod

\* ---------------------------------------------------------------- resolver
\* the loop of find_index walking past tombstoned slots on insertion too
RECURSIVE ProbeWalk_past_tombstones(_, _, _, _, _)
ProbeWalk_past_tombstones(t, key, insert, p, n) ==
    LET cur  == p.current
        slot == t.hash_map[cur]
    IN  IF slot.occ /\ ~map_equal(slot.key, key)
        THEN IF n >= ProbeLimit(p.mod)
             THEN [ind |-> cur, probes |-> n, fault |-> "hang"]
             ELSE ProbeWalk_past_tombstones(t, key, insert, PolicyNext(p), n + 1)
        ELSE [ind |-> IF insert \/ (slot.occ /\ ~t.deleted[cur] /\ map_equal(slot.key, key))
                      THEN cur ELSE t.map_max_size * 2,
              probes |-> n, fault |-> "none"]

\* The while loop of find_index, entered with the policy object p after n
\* advances.  Result: the index find_index returns, the number of advances,
\* and fault = "hang" when the loop never exits.
RECURSIVE ProbeWalk(_, _, _, _, _)
ProbeWalk(t, key, insert, p, n) ==
    LET cur  == p.current
        slot == t.hash_map[cur]
    IN  IF slot.occ /\ (~t.deleted[cur] \/ ~insert) /\ ~map_equal(slot.key, key)
        THEN IF n >= ProbeLimit(p.mod)
             THEN [ind |-> cur, probes |-> n, fault |-> "hang"]
             ELSE ProbeWalk(t, key, insert, PolicyNext(p), n + 1)
        ELSE [ind |-> IF insert \/ (slot.occ /\ ~t.deleted[cur] /\ map_equal(slot.key, key))
                      THEN cur ELSE t.map_max_size * 2,
              probes |-> n, fault |-> "none"]

\* find_index without the early return for an empty vector
find_index_unguarded(t, key, insert) ==
    IF VecSize(t.hash_map) = 0
    THEN [ind |-> 0, probes |-> 0, fault |-> "ub"]
    ELSE ProbeWalk(t, key, insert,
                   CollisionPolicy(map_hasher(key) % VecSize(t.hash_map), VecSize(t.hash_map)), 0)

\* size_type find_index(const key_type & key, bool insert) const
\* (hash % 0 on an empty vector is undefined; it is reported as fault "ub")
find_index(t, key, insert) ==
    IF VecSize(t.hash_map) = 0 /\ ~insert
    THEN [ind |-> t.map_max_size * 2, probes |-> 0, fault |-> "none"]
    ELSE IF VecSize(t.hash_map) = 0
    THEN [ind |-> 0, probes |-> 0, fault |-> "ub"]
    ELSE ProbeWalk(t, key, insert,
                   CollisionPolicy(map_hasher(key) % VecSize(t.hash_map), VecSize(t.hash_map)), 0)

\* iterator find(const key_type & key): the iterator's index
find(t, key) == find_index(t, key, FALSE)

\* bool contains(const key_type & key) const, when find returns
contains(t, key) ==
    LET r == find(t, key) IN r.fault = "none" /\ r.ind # end(t)

\* ---------------------------------------------------------------- growth
\* load_factor() dividing by max_size() instead of bucket_count()
load_factor_over_max_size(t) ==
    IF max_size(t) # 0 THEN [num |-> size(t), den |-> max_size(t)]
                       ELSE [num |-> 1, den |-> 1]

\* float load_factor() const, as an exact fraction
load_factor(t) ==
    IF max_size(t) # 0 THEN [num |-> size(t), den |-> bucket_count(t)]
                       ELSE [num |-> 1, den |-> 1]

\* float max_load_factor() const: 0.5
max_load_factor == [num |-> 1, den |-> 2]

FracGE(a, b) == a.num * b.den >= b.num * a.den

\* update_after_insert without ++map_size
update_after_insert_keep_size(t, to_update) ==
    [t EXCEPT !.deleted   = [t.deleted EXCEPT ![to_update] = FALSE],
              !.first_ind = IF empty(t) THEN to_update ELSE Min(t.first_ind, to_update)]

\* void update_after_insert(size_type to_update)
update_after_insert(t, to_update) ==
    [t EXCEPT !.deleted   = [t.deleted EXCEPT ![to_update] = FALSE],
              !.first_ind = IF empty(t) THEN to_update ELSE Min(t.first_ind, to_update),
              !.map_size  = t.map_size + 1]

\* new_size without the branch for an empty vector
NewSize_without_minimum(t, count) ==
    IF count < size(t) * 2 THEN size(t) * 2 + 2 ELSE count + 1

\* the size rehash(count) chooses for map_max_size
NewSize(t, count) ==
    IF count = 0 /\ VecSize(t.hash_map) = 0 THEN 2
    ELSE IF count < size(t) * 2 THEN size(t) * 2 + 2
    ELSE count + 1

RECURSIVE rehash(_, _), emplace_impl(_, _, _), Migrate(_, _, _, _)

\* check_fullness() comparing with > instead of >=
check_fullness_strict(t) ==
    IF ~FracGE(max_load_factor, load_factor(t)) THEN rehash(t, t.map_max_size * 2) ELSE t

\* void check_fullness()
check_fullness(t) ==
    IF FracGE(load_factor(t), max_load_factor) THEN rehash(t, t.map_max_size * 2) ELSE t

\* std::pair<iterator, bool> emplace_impl(K && key, V && value)
\* (insert, emplace, try_emplace and HashSet::insert run the same steps)
emplace_impl(t, key, value) ==
    LET t1 == check_fullness(t)
        r  == find_index(t1, key, TRUE)
    IN  IF t1.fault # "none" THEN [t |-> t1, ind |-> 0, inserted |-> FALSE]
        ELSE IF r.fault # "none"
        THEN [t |-> [t1 EXCEPT !.fault = r.fault], ind |-> 0, inserted |-> FALSE]
        ELSE IF ~t1.hash_map[r.ind].occ \/ t1.deleted[r.ind]
        THEN [t |-> update_after_insert(
                        [t1 EXCEPT !.hash_map = [t1.hash_map EXCEPT ![r.ind] = Entry(key, value)]],
                        r.ind),
              ind |-> r.ind, inserted |-> TRUE]
        ELSE [t |-> t1, ind |-> r.ind, inserted |-> FALSE]

\* the migration loop of rehash over temp_map / temp_deleted from index i
Migrate(t, temp_map, temp_deleted, i) ==
    IF i >= VecSize(temp_map) \/ t.fault # "none" THEN t
    ELSE IF temp_map[i].occ /\ ~temp_deleted[i]
    THEN Migrate(emplace_impl(t, temp_map[i].key, temp_map[i].val).t, temp_map, temp_deleted, i + 1)
    ELSE Migrate(t, temp_map, temp_deleted, i + 1)

\* rehash(count) without map_size = 0 before the migration
rehash_keep_size(t, count) ==
    LET new_size == NewSize(t, count)
        t1 == [t EXCEPT !.hash_map = [i \in 0..(new_size * 2 - 1) |-> nullopt],
                        !.deleted  = [i \in 0..(new_size * 2 - 1) |-> TRUE],
                        !.map_max_size = new_size,
                        !.first_ind = new_size * 2,
                        !.rehashes = t.rehashes + 1]
    IN  Migrate(t1, t.hash_map, t.deleted, 0)

\* void rehash(const size_type count)
rehash(t, count) ==
    LET new_size == NewSize(t, count)
        t1 == [t EXCEPT !.hash_map = [i \in 0..(new_size * 2 - 1) |-> nullopt],
                        !.deleted  = [i \in 0..(new_size * 2 - 1) |-> TRUE],
                        !.map_max_size = new_size,
                        !.map_size = 0,
                        !.first_ind = new_size * 2,
                        !.rehashes = t.rehashes + 1]
    IN  Migrate(t1, t.hash_map, t.deleted, 0)

\* reserve(count) comparing with >= instead of >
reserve_at_threshold(t, count) == IF count >= size(t) * 2 + 2 THEN rehash(t, count) ELSE t

\* void reserve(size_type count)
reserve(t, count) == IF count > size(t) * 2 + 2 THEN rehash(t, count) ELSE t

\* ---------------------------------------------------------------- iterator
\* the loop of operator++ stepping over disengaged slots only, not over tombstoned ones
RECURSIVE SkipToLive_over_empty_only(_, _)
SkipToLive_over_empty_only(t, current) ==
    IF current < VecSize(t.hash_map) /\ ~t.hash_map[current].occ
    THEN SkipToLive_over_empty_only(t, current + 1)
    ELSE current

\* the loop of CommonIterator::operator++ once current has been incremented
RECURSIVE SkipToLive(_, _)
SkipToLive(t, current) ==
    IF current < VecSize(t.hash_map) /\ (~t.hash_map[current].occ \/ t.deleted[current])
    THEN SkipToLive(t, current + 1)
    ELSE current

\* CommonIterator::operator++ : the index after advancing from current
Advance(t, current) == SkipToLive(t, current + 1)

\* for (it = begin(); it != end(); ++it): the indices dereferenced, in order
RECURSIVE IterFrom(_, _)
IterFrom(t, current) ==
    IF current >= end(t) THEN <<>>
    ELSE <<current>> \o IterFrom(t, Advance(t, current))

Iterate(t) == IterFrom(t, begin(t))

\* ---------------------------------------------------------- erase / clear
\* erase(pos) resetting the optional instead of setting the tombstone flag
erase_pos_reset(t, pos) ==
    LET it == Advance(t, pos)
    IN  IF t.hash_map[pos].occ
        THEN [t |-> [t EXCEPT !.hash_map  = [t.hash_map EXCEPT ![pos] = nullopt],
                              !.deleted   = [t.deleted EXCEPT ![pos] = TRUE],
                              !.map_size  = t.map_size - 1,
                              !.first_ind = IF pos = t.first_ind THEN it ELSE t.first_ind],
              it |-> it]
        ELSE [t |-> t, it |-> pos]

\* iterator erase(const_iterator pos)
erase_pos(t, pos) ==
    LET it == Advance(t, pos)
    IN  IF t.hash_map[pos].occ
        THEN [t |-> [t EXCEPT !.deleted   = [t.deleted EXCEPT ![pos] = TRUE],
                              !.map_size  = t.map_size - 1,
                              !.first_ind = IF pos = t.first_ind THEN it ELSE t.first_ind],
              it |-> it]
        ELSE [t |-> t, it |-> pos]

\* size_type erase(const key_type & key)
erase_key(t, key) ==
    LET r == find(t, key)
    IN  IF r.fault # "none" THEN [t |-> [t EXCEPT !.fault = r.fault], ret |-> 0, ind |-> end(t)]
        ELSE IF r.ind # end(t) THEN [t |-> erase_pos(t, r.ind).t, ret |-> 1, ind |-> r.ind]
        ELSE [t |-> t, ret |-> 0, ind |-> end(t)]

\* iterator erase(const_iterator first, const_iterator last): the loop from it
RECURSIVE erase_range(_, _, _)
erase_range(t, it, last_it) ==
    IF it = last_it \/ it >= end(t) THEN [t |-> t, it |-> it]
    ELSE erase_range(erase_pos(t, it).t, Advance(t, it), last_it)

\* mapped_type & at(const key_type & key): the value returned, or thrown = TRUE
\* for std::out_of_range; fault = "hang" when find never returns
at(t, key) ==
    LET r == find(t, key)
    IN  IF r.fault # "none" THEN [thrown |-> FALSE, val |-> NoVal, fault |-> r.fault]
        ELSE IF r.ind # end(t)
        THEN [thrown |-> FALSE, val |-> t.hash_map[r.ind].val, fault |-> "none"]
        ELSE [thrown |-> TRUE, val |-> NoVal, fault |-> "none"]

\* clear() allocating map_max_size slots instead of map_max_size * 2
clear_half_length(t) ==
    [t EXCEPT !.hash_map = [i \in 0..(t.map_max_size - 1) |-> nullopt],
              !.deleted  = [i \in 0..(t.map_max_size - 1) |-> TRUE],
              !.map_size = 0,
              !.first_ind = 0]

\* clear() resetting the counters and leaving the vectors as they are
clear_counters_only(t) ==
    [t EXCEPT !.map_size = 0,
              !.first_ind = 0]

\* void clear()
clear(t) ==
    [t EXCEPT !.hash_map = [i \in 0..(t.map_max_size * 2 - 1) |-> nullopt],
              !.deleted  = [i \in 0..(t.map_max_size * 2 - 1) |-> TRUE],
              !.map_size = 0,
              !.first_ind = 0]

\* the range-for loop of operator== from the iterator index it: FALSE at the
\* first key of lhs that rhs does not contain, TRUE at lhs.end(); fault "ub"
\* when the iterator is dereferenced at a disengaged optional
RECURSIVE EqLoop(_, _, _)
EqLoop(lhs, rhs, it) ==
    IF it >= end(lhs) THEN [ret |-> TRUE, fault |-> "none"]
    ELSE IF ~lhs.hash_map[it].occ THEN [ret |-> FALSE, fault |-> "ub"]
    ELSE IF find(rhs, lhs.hash_map[it].key).fault # "none"
    THEN [ret |-> FALSE, fault |-> find(rhs, lhs.hash_map[it].key).fault]
    ELSE IF ~contains(rhs, lhs.hash_map[it].key) THEN [ret |-> FALSE, fault |-> "none"]
    ELSE EqLoop(lhs, rhs, Advance(lhs, it))

\* friend bool operator==(const HashMap & lhs, const HashMap & rhs)
operator_eq(lhs, rhs) ==
    IF size(lhs) # size(rhs) THEN [ret |-> FALSE, fault |-> "none"]
    ELSE EqLoop(lhs, rhs, begin(lhs))

\* void swap(HashMap & other) noexcept
swap(t, other) == [this |-> other, other |-> t]

\* ------------------------------------------------------------------ HashSet
\* The HashSet of hash_set.h as a value: its five data members plus, as for
\* Self, the rehash() calls of the call in progress and whether it returned.
\* std::optional<Key>: disengaged, or a key
set_nullopt == [occ |-> FALSE, key |-> -1]

SetEntry(k) == [occ |-> TRUE, key |-> k]

\* the hasher and key_equal template arguments of the set, the same as the map's
set_hasher(k) == map_hasher(k)

set_equal(a, b) == a = b

\* explicit HashSet(size_type expected_max_size)
HashSet(expected_max_size) ==
    [set_size |-> 0, set_max_size |-> expected_max_size,
     hash_set |-> [i \in 0..(expected_max_size * 2 - 1) |-> set_nullopt],
     deleted  |-> [i \in 0..(expected_max_size * 2 - 1) |-> TRUE],
     first_ind |-> expected_max_size * 2,
     rehashes |-> 0, fault |-> "none"]

\* the while loop of HashSet::find_index after n advances of the policy object p
RECURSIVE set_ProbeWalk(_, _, _, _, _)
set_ProbeWalk(s, key, insert, p, n) ==
    LET cur  == p.current
        slot == s.hash_set[cur]
    IN  IF slot.occ /\ (~s.deleted[cur] \/ ~insert) /\ ~set_equal(slot.key, key)
        THEN IF n >= ProbeLimit(p.mod)
             THEN [ind |-> cur, probes |-> n, fault |-> "hang"]
             ELSE set_ProbeWalk(s, key, insert, PolicyNext(p), n + 1)
        ELSE [ind |-> IF insert \/ (slot.occ /\ ~s.deleted[cur] /\ set_equal(slot.key, key))
                      THEN cur ELSE s.set_max_size * 2,
              probes |-> n, fault |-> "none"]

\* HashSet::find_index(const key_type & key, bool insert) const
set_find_index(s, key, insert) ==
    IF VecSize(s.hash_set) = 0 /\ ~insert
    THEN [ind |-> s.set_max_size * 2, probes |-> 0, fault |-> "none"]
    ELSE IF VecSize(s.hash_set) = 0
    THEN [ind |-> 0, probes |-> 0, fault |-> "ub"]
    ELSE set_ProbeWalk(s, key, insert,
                       CollisionPolicy(set_hasher(key) % VecSize(s.hash_set), VecSize(s.hash_set)), 0)

\* HashSet::find(const key_type & key): the iterator's index
set_find(s, key) == set_find_index(s, key, FALSE)

\* HashSet::load_factor() const, as an exact fraction
set_load_factor(s) ==
    IF s.set_max_size # 0 THEN [num |-> s.set_size, den |-> s.set_max_size * 2]
                          ELSE [num |-> 1, den |-> 1]

\* HashSet::update_after_insert(size_type to_update)
set_update_after_insert(s, to_update) ==
    [s EXCEPT !.deleted   = [s.deleted EXCEPT ![to_update] = FALSE],
              !.first_ind = IF s.set_size = 0 THEN to_update ELSE Min(s.first_ind, to_update),
              !.set_size  = s.set_size + 1]

\* new_size of HashSet::rehash comparing with <= instead of <
set_NewSize_inclusive(s, count) ==
    IF count = 0 /\ VecSize(s.hash_set) = 0 THEN 2
    ELSE IF count <= s.set_size * 2 THEN s.set_size * 2 + 2
    ELSE count + 1

\* the size HashSet::rehash(count) chooses for set_max_size
set_NewSize(s, count) ==
    IF count = 0 /\ VecSize(s.hash_set) = 0 THEN 2
    ELSE IF count < s.set_size * 2 THEN s.set_size * 2 + 2
    ELSE count + 1

RECURSIVE set_rehash(_, _), set_install(_, _), set_Migrate(_, _, _, _)

\* HashSet::check_fullness(), and the same test at the head of HashSet::emplace
set_check_fullness(s) ==
    IF FracGE(set_load_factor(s), max_load_factor) THEN set_rehash(s, s.set_max_size * 2) ELSE s

\* HashSet::insert(const value_type &) and HashSet::emplace(Args &&...):
\* growth check, find_index(key, true), install when the slot is not live
set_install(s, key) ==
    LET s1 == set_check_fullness(s)
        r  == set_find_index(s1, key, TRUE)
    IN  IF s1.fault # "none" THEN [s |-> s1, ind |-> 0, inserted |-> FALSE]
        ELSE IF r.fault # "none"
        THEN [s |-> [s1 EXCEPT !.fault = r.fault], ind |-> 0, inserted |-> FALSE]
        ELSE IF ~s1.hash_set[r.ind].occ \/ s1.deleted[r.ind]
        THEN [s |-> set_update_after_insert(
                        [s1 EXCEPT !.hash_set = [s1.hash_set EXCEPT ![r.ind] = SetEntry(key)]],
                        r.ind),
              ind |-> r.ind, inserted |-> TRUE]
        ELSE [s |-> s1, ind |-> r.ind, inserted |-> FALSE]

\* the migration loop of HashSet::rehash over temp_set / temp_deleted from index i
set_Migrate(s, temp_set, temp_deleted, i) ==
    IF i >= VecSize(temp_set) \/ s.fault # "none" THEN s
    ELSE IF temp_set[i].occ /\ ~temp_deleted[i]
    THEN set_Migrate(set_install(s, temp_set[i].key).s, temp_set, temp_deleted, i + 1)
    ELSE set_Migrate(s, temp_set, temp_deleted, i + 1)

\* HashSet::rehash(const size_type count)
set_rehash(s, count) ==
    LET new_size == set_NewSize(s, count)
        s1 == [s EXCEPT !.hash_set = [i \in 0..(new_size * 2 - 1) |-> set_nullopt],
                        !.deleted  = [i \in 0..(new_size * 2 - 1) |-> TRUE],
                        !.set_max_size = new_size,
                        !.set_size = 0,
                        !.first_ind = new_size * 2,
                        !.rehashes = s.rehashes + 1]
    IN  set_Migrate(s1, s.hash_set, s.deleted, 0)

\* HashSet::reserve(size_type count)
set_reserve(s, count) == IF count > s.set_size * 2 + 2 THEN set_rehash(s, count) ELSE s

\* the loop of SetIterator::operator++ once current has been incremented
RECURSIVE set_SkipToLive(_, _)
set_SkipToLive(s, current) ==
    IF current < VecSize(s.hash_set) /\ (~s.hash_set[current].occ \/ s.deleted[current])
    THEN set_SkipToLive(s, current + 1)
    ELSE current

\* HashSet::erase(const_iterator pos)
set_erase_pos(s, pos) ==
    LET it == set_SkipToLive(s, pos + 1)
    IN  IF s.hash_set[pos].occ
        THEN [s |-> [s EXCEPT !.deleted   = [s.deleted EXCEPT ![pos] = TRUE],
                              !.set_size  = s.set_size - 1,
                              !.first_ind = IF pos = s.first_ind THEN it ELSE s.first_ind],
              it |-> it]
        ELSE [s |-> s, it |-> pos]

\* HashSet::erase(const key_type & key)
set_erase_key(s, key) ==
    LET r == set_find(s, key)
    IN  IF r.fault # "none" THEN [s |-> [s EXCEPT !.fault = r.fault], ret |-> 0]
        ELSE IF r.ind # s.set_max_size * 2 THEN [s |-> set_erase_pos(s, r.ind).s, ret |-> 1]
        ELSE [s |-> s, ret |-> 0]

\* HashSet::erase(const_iterator first, const_iterator last): the loop from it
RECURSIVE set_erase_range(_, _, _)
set_erase_range(s, it, last_it) ==
    IF it = last_it \/ it >= s.set_max_size * 2 THEN [s |-> s, it |-> it]
    ELSE set_erase_range(set_erase_pos(s, it).s, set_SkipToLive(s, it + 1), last_it)

\* HashSet::clear()
set_clear(s) ==
    [s EXCEPT !.hash_set = [i \in 0..(s.set_max_size * 2 - 1) |-> set_nullopt],
              !.deleted  = [i \in 0..(s.set_max_size * 2 - 1) |-> TRUE],
              !.set_size = 0,
              !.first_ind = 0]

\* the set after a call that left it as s: the call's rehash count is not a data member
SetBecomes(s) == hset' = [s EXCEPT !.rehashes = 0]

\* ------------------------------------------------------------ state machine
NotFresh == [pure |-> FALSE, hint |-> 0, rehashes |-> 0]

Call(op, arg, ret, ind, n) == [op |-> op, arg |-> arg, ret |-> ret, ind |-> ind, rehashes |-> n]

\* the data members after a call that left the object as t
Becomes(t) ==
    /\ map_size' = t.map_size
    /\ map_max_size' = t.map_max_size
    /\ hash_map' = t.hash_map
    /\ deleted' = t.deleted
    /\ first_ind' = t.first_ind
    /\ fault' = t.fault

\* no policy object is in use on its own
NoProbe == [obj |-> LinearProbing(0, 1), start |-> 0, advances |-> 0, ret |-> 0]

Init ==
    \E h \in 0..MaxHint :
        /\ map_size = 0
        /\ map_max_size = h
        /\ hash_map = HashMap(h).hash_map
        /\ deleted = HashMap(h).deleted
        /\ first_ind = HashMap(h).first_ind
        /\ fault = "none"
        /\ policy = "linear"
        /\ installed = [k \in Keys |-> NoVal]
        /\ erases = 0
        /\ hset = HashSet(h)
        /\ probe = NoProbe
        /\ fresh = [pure |-> TRUE, hint |-> h, rehashes |-> 0]
        /\ last = Call("construct", h, 0, 0, 0)

\* insert(value) / emplace(key, value) / try_emplace(key, value)
Insert(k, v) ==
    LET r == emplace_impl(Self, k, v)
    IN  /\ fault = "none"
        /\ r.t.map_max_size <= MaxCap
        /\ Becomes(r.t)
        /\ installed' = IF r.inserted THEN [installed EXCEPT ![k] = v] ELSE installed
        /\ fresh' = IF fresh.pure /\ installed[k] = NoVal /\ r.t.fault = "none"
                    THEN [fresh EXCEPT !.rehashes = fresh.rehashes + r.t.rehashes]
                    ELSE NotFresh
        /\ last' = Call("insert", k, IF r.inserted THEN 1 ELSE 0, r.ind, r.t.rehashes)
        /\ SetBecomes(set_install(hset, k).s)
        /\ UNCHANGED <<policy, erases, probe>>

\* erase(key)
Erase(k) ==
    LET r == erase_key(Self, k)
    IN  /\ fault = "none"
        /\ erases < MaxErase
        /\ erases' = erases + 1
        /\ Becomes(r.t)
        /\ installed' = [installed EXCEPT ![k] = NoVal]
        /\ fresh' = NotFresh
        /\ last' = Call("erase", k, r.ret, r.ind, 0)
        /\ SetBecomes(set_erase_key(hset, k).s)
        /\ UNCHANGED <<policy, probe>>

\* find(key) / contains(key) / count(key)
Find(k) ==
    LET r == find(Self, k)
    IN  /\ fault = "none"
        /\ Becomes([Self EXCEPT !.fault = r.fault])
        /\ last' = Call("find", k, IF r.fault = "none" /\ r.ind # end(Self) THEN 1 ELSE 0, r.ind, 0)
        /\ SetBecomes([hset EXCEPT !.fault = set_find(hset, k).fault])
        /\ UNCHANGED <<policy, installed, erases, probe, fresh>>

\* rehash(count)
Rehash(count) ==
    LET t == rehash(Self, count)
    IN  /\ fault = "none"
        /\ t.map_max_size <= MaxCap
        /\ Becomes(t)
        /\ fresh' = NotFresh
        /\ last' = Call("rehash", count, 0, 0, t.rehashes)
        /\ SetBecomes(set_rehash(hset, count))
        /\ UNCHANGED <<policy, installed, erases, probe>>

\* reserve(count)
Reserve(count) ==
    LET t == reserve(Self, count)
    IN  /\ fault = "none"
        /\ t.map_max_size <= MaxCap
        /\ Becomes(t)
        /\ fresh' = NotFresh
        /\ last' = Call("reserve", count, 0, 0, t.rehashes)
        /\ SetBecomes(set_reserve(hset, count))
        /\ UNCHANGED <<policy, installed, erases, probe>>

\* clear()
Clear ==
    /\ fault = "none"
    /\ Becomes(clear(Self))
    /\ installed' = [k \in Keys |-> NoVal]
    /\ fresh' = NotFresh
    /\ erases' = 0
    /\ last' = Call("clear", 0, 0, 0, 0)
    /\ SetBecomes(set_clear(hset))
    /\ UNCHANGED <<policy, probe>>

\* *this = HashMap(h): operator=(HashMap &&) swaps with the temporary, which is then destroyed
MoveAssign(h) ==
    /\ fault = "none"
    /\ Becomes(swap(Self, HashMap(h)).this)
    /\ installed' = [k \in Keys |-> NoVal]
    /\ fresh' = [pure |-> TRUE, hint |-> h, rehashes |-> 0]
    /\ erases' = 0
    /\ last' = Call("assign", h, 0, 0, 0)
    /\ SetBecomes(HashSet(h))
    /\ UNCHANGED <<policy, probe>>

\* the positions of valid iterators: live slots and end()
Iterators(t) == LiveSlots(t) \cup {end(t)}

\* erase(pos) with an iterator at a live element
EraseAt(pos) ==
    LET r == erase_pos(Self, pos)
    IN  /\ fault = "none"
        /\ pos \in LiveSlots(Self)
        /\ erases < MaxErase
        /\ erases' = erases + 1
        /\ Becomes(r.t)
        /\ installed' = [installed EXCEPT ![hash_map[pos].key] = NoVal]
        /\ fresh' = NotFresh
        /\ last' = Call("erase_pos", pos, r.it, pos, 0)
        /\ SetBecomes(set_erase_pos(hset, pos).s)
        /\ UNCHANGED <<policy, probe>>

\* erase(first, last) with a valid iterator range holding at least one element
EraseRange(first, last_it) ==
    LET r == erase_range(Self, first, last_it)
        gone == {i \in LiveSlots(Self) : first <= i /\ i < last_it}
    IN  /\ fault = "none"
        /\ first \in LiveSlots(Self) /\ last_it \in Iterators(Self) /\ first < last_it
        /\ erases + Cardinality(gone) <= MaxErase
        /\ erases' = erases + Cardinality(gone)
        /\ Becomes(r.t)
        /\ installed' = [k \in Keys |-> IF \E i \in gone : hash_map[i].key = k
                                          THEN NoVal ELSE installed[k]]
        /\ fresh' = NotFresh
        /\ last' = Call("erase_range", first, r.it, last_it, 0)
        /\ SetBecomes(set_erase_range(hset, first, last_it).s)
        /\ UNCHANGED <<policy, probe>>

Next ==
    \/ \E k \in Keys, v \in Vals : Insert(k, v)
    \/ \E k \in Keys : Erase(k)
    \/ \E pos \in LiveSlots(Self) : EraseAt(pos)
    \/ \E first \in LiveSlots(Self), last_it \in Iterators(Self) : EraseRange(first, last_it)
    \/ \E k \in Keys : Find(k)
    \/ \E c \in 0..MaxCount : Rehash(c)
    \/ \E c \in 0..MaxCount : Reserve(c)
    \/ Clear
    \/ \E h \in 0..MaxHint : MoveAssign(h)

Spec == Init /\ [][Next]_vars

\* insert(value) of a key that was not inserted before
InsertNew(k, v) == installed[k] = NoVal /\ Insert(k, v)

NextGrow == \E k \in Keys, v \in Vals : InsertNew(k, v)

\* a freshly constructed table into which only new keys are inserted
SpecGrow == Init /\ [][NextGrow]_vars

\* HashMap<Key, T, QuadraticProbing>: the same operations under the quadratic policy
InitQuad ==
    \E h \in 0..MaxHint :
        /\ map_size = 0
        /\ map_max_size = h
        /\ hash_map = HashMap(h).hash_map
        /\ deleted = HashMap(h).deleted
        /\ first_ind = HashMap(h).first_ind
        /\ fault = "none"
        /\ policy = "quadratic"
        /\ installed = [k \in Keys |-> NoVal]
        /\ erases = 0
        /\ hset = HashSet(h)
        /\ probe = NoProbe
        /\ fresh = [pure |-> TRUE, hint |-> h, rehashes |-> 0]
        /\ last = Call("construct", h, 0, 0, 0)

SpecQuad == InitQuad /\ [][Next]_vars

\* a policy object constructed at (start, mod) and advanced on its own
InitProbe ==
    \E kind \in {"linear", "quadratic"}, mod \in 1..MaxMod :
        \E start \in 0..(mod - 1) :
            /\ policy = kind
            /\ probe = [obj |-> IF kind = "linear" THEN LinearProbing(start, mod)
                                                    ELSE QuadraticProbing(start, mod),
                        start |-> start, advances |-> 0, ret |-> start]
            /\ map_size = 0
            /\ map_max_size = 0
            /\ hash_map = HashMap(0).hash_map
            /\ deleted = HashMap(0).deleted
            /\ first_ind = 0
            /\ fault = "none"
            /\ installed = [k \in Keys |-> NoVal]
            /\ erases = 0
            /\ hset = HashSet(0)
            /\ fresh = NotFresh
            /\ last = Call("policy", start, 0, 0, 0)

\* ++policy
PolicyAdvance ==
    /\ probe.advances < MaxAdvance
    /\ probe' = [obj |-> PolicyNext(probe.obj), start |-> probe.start,
                 advances |-> probe.advances + 1, ret |-> PolicyNext(probe.obj).current]
    /\ UNCHANGED <<map_size, map_max_size, hash_map, deleted, first_ind, policy, fault,
                   installed, erases, hset, fresh, last>>

SpecProbe == InitProbe /\ [][PolicyAdvance]_vars

TypeOK ==
    /\ map_size \in Nat
    /\ map_max_size \in 0..MaxCap
    /\ DOMAIN hash_map = 0..(map_max_size * 2 - 1)
    /\ DOMAIN deleted = 0..(map_max_size * 2 - 1)
    /\ first_ind \in 0..(map_max_size * 2)
    /\ fault \in {"none", "hang", "ub"}
    /\ hset.set_size \in Nat
    /\ DOMAIN hset.hash_set = 0..(hset.set_max_size * 2 - 1)
    /\ DOMAIN hset.deleted = 0..(hset.set_max_size * 2 - 1)
    /\ hset.fault \in {"none", "hang", "ub"}

\* ------------------------------------------------------------------ claims
\* the keys inserted and not erased or cleared since
Present == {k \in Keys : installed[k] # NoVal}

\* the keys a full iteration yields, in order
IterKeys(t) == [n \in 1..Len(Iterate(t)) |-> t.hash_map[Iterate(t)[n]].key]

\* C1: no key is held by more than one live slot.
C1_Uniqueness ==
    \A i, j \in LiveSlots(Self) :
        map_equal(hash_map[i].key, hash_map[j].key) => i = j

\* C2: a lookup of any key returns, within physical_length probe steps.
C2_LookupTerminates ==
    fault = "none" =>
        \A k \in Keys :
            /\ find(Self, k).fault = "none"
            /\ find(Self, k).probes <= VecSize(hash_map)

\* C3: a key inserted and not erased or cleared since is found at a live slot
\* holding the key with the entry last installed for it.
C3_RoundTrip ==
    fault = "none" =>
        \A k \in Present :
            LET r == find(Self, k)
            IN  /\ r.fault = "none"
                /\ r.ind # end(Self)
                /\ IsLive(Self, r.ind)
                /\ hash_map[r.ind].key = k
                /\ hash_map[r.ind].val = installed[k]

\* C4 as stated: after every insertion live_count / physical_length < 0.5,
\* that is live_count < capacity_hint.
C4_LoadFactorBelowHalf ==
    (last.op = "insert" /\ fault = "none") => 2 * map_size < VecSize(hash_map)

\* C4 as amended: after every insertion live_count / physical_length <= 0.5,
\* that is live_count <= capacity_hint, on a table of nonzero length.
C4_LoadFactorAtMostHalf ==
    (last.op = "insert" /\ fault = "none") =>
        /\ VecSize(hash_map) > 0
        /\ 2 * map_size <= VecSize(hash_map)
        /\ map_size <= map_max_size

\* an insertion has just filled the table to exactly half
C4_Witness ==
    /\ last.op = "insert" /\ last.ret = 1 /\ fault = "none"
    /\ map_size = map_max_size /\ map_size >= 2

\* C5: iterating from begin() to end() dereferences live slots only and yields
\* exactly the keys inserted and not erased or cleared, each once.
C5_IterationExact ==
    fault = "none" =>
        /\ \A n \in 1..Len(Iterate(Self)) : IsLive(Self, Iterate(Self)[n])
        /\ {IterKeys(Self)[n] : n \in 1..Len(Iterate(Self))} = Present
        /\ \A m, n \in 1..Len(Iterate(Self)) :
               IterKeys(Self)[m] = IterKeys(Self)[n] => m = n

\* the counts rehash can be called with from the current state: any explicit
\* count, and the one check_fullness passes when the load factor is at the threshold
RehashCounts ==
    (0..MaxCount) \cup
    (IF FracGE(load_factor(Self), max_load_factor) THEN {map_max_size * 2} ELSE {})

\* C6: a rehash, explicit or triggered by the load-factor check, leaves size()
\* and the set of keys that lookup reports present unchanged.
C6_RehashPreservesMembership ==
    fault = "none" =>
        \A count \in RehashCounts :
            LET t == rehash(Self, count)
            IN  /\ t.fault = "none"
                /\ size(t) = map_size
                /\ \A k \in Keys : contains(t, k) <=> contains(Self, k)

\* C7: when a key a has just been erased and a different key c is installed in
\* a's former slot, a is reported absent, c is found, and every other key that
\* was found before is still found.
C7_NoResurrection ==
    [][ ( /\ last.op = "erase" /\ last.ret = 1
          /\ last'.op = "insert" /\ last'.ret = 1 /\ last'.rehashes = 0
          /\ last'.arg # last.arg /\ last'.ind = last.ind
          /\ fault' = "none" )
        => ( /\ ~contains(Self', last.arg)
             /\ contains(Self', last'.arg)
             /\ \A k \in Keys \ {last.arg} : contains(Self, k) => contains(Self', k) )
      ]_vars

\* C8: first_ind is at most the index of every live slot, and equals
\* physical_length exactly when size() = 0.
C8_FirstIndex ==
    fault = "none" =>
        /\ \A i \in LiveSlots(Self) : first_ind <= i
        /\ (first_ind = map_max_size * 2) <=> (map_size = 0)

\* C9: on a table constructed with hint c >= 1 into which only new keys are
\* inserted, the first c insertions run no rehash, the (c+1)-th runs exactly
\* one before the key is placed (growing capacity_hint to 2c+1), and
\* afterwards all c+1 keys are found and size() = c+1.
C9_GrowthOnOverflow ==
    (fresh.pure /\ fresh.hint >= 1 /\ fault = "none") =>
        /\ map_size = Cardinality(Present)
        /\ Cardinality(Present) <= fresh.hint =>
               /\ fresh.rehashes = 0
               /\ last.rehashes = 0
               /\ map_max_size = fresh.hint
        /\ Cardinality(Present) = fresh.hint + 1 =>
               /\ fresh.rehashes = 1
               /\ last.op = "insert" /\ last.ret = 1 /\ last.rehashes = 1
               /\ map_max_size = 2 * fresh.hint + 1
               /\ IsLive(Self, last.ind) /\ hash_map[last.ind].key = last.arg
               /\ map_size = fresh.hint + 1
               /\ \A k \in Present : contains(Self, k)

\* hint 2, three new keys inserted, the third of which grew the table
C9_Witness ==
    /\ fresh.pure /\ fresh.hint = 2 /\ fault = "none"
    /\ Cardinality(Present) = 3 /\ map_size = 3
    /\ last.op = "insert" /\ last.rehashes = 1

\* C10: erase(k) of a present key returns 1, decreases size() by one, leaves k
\* absent from lookup and iteration (also after a rehash) and every other
\* key's presence and value unchanged; erase(k) of an absent key returns 0
\* and changes nothing.
C10_EraseEffect ==
    [][ (last'.op = "erase" /\ fault' = "none") =>
        LET k == last'.arg
        IN  IF contains(Self, k)
            THEN /\ last'.ret = 1
                 /\ map_size' = map_size - 1
                 /\ ~contains(Self', k)
                 /\ \A n \in 1..Len(Iterate(Self')) : IterKeys(Self')[n] # k
                 /\ \A c \in 0..MaxCount : ~contains(rehash(Self', c), k)
                 /\ \A o \in Keys \ {k} :
                        /\ contains(Self', o) <=> contains(Self, o)
                        /\ contains(Self, o) =>
                               hash_map'[find(Self', o).ind].val = hash_map[find(Self, o).ind].val
            ELSE /\ last'.ret = 0
                 /\ UNCHANGED <<map_size, map_max_size, hash_map, deleted, first_ind>>
      ]_vars

\* the three states of a slot
SlotState(t, i) ==
    IF ~t.hash_map[i].occ THEN "empty"
    ELSE IF t.deleted[i] THEN "tombstoned" ELSE "live"

\* some live slot holds key k
HoldsKey(t, k) == \E i \in LiveSlots(t) : map_equal(t.hash_map[i].key, k)

\* C11: in a call that runs no rehash or clear, every slot stays as it is, or
\* goes Live -> Tombstoned with its entry kept (an erase), or goes Empty or
\* Tombstoned -> Live (an insert); an occupied slot never becomes empty.
C11_SlotLifecycle ==
    [][ ( /\ last'.op \in {"insert", "erase", "erase_pos", "erase_range", "find", "reserve"}
          /\ last'.rehashes = 0
          /\ fault' = "none" )
        => /\ DOMAIN hash_map' = DOMAIN hash_map
           /\ \A i \in DOMAIN hash_map :
                  \/ /\ SlotState(Self', i) = SlotState(Self, i)
                     /\ hash_map'[i] = hash_map[i]
                  \/ /\ last'.op \in {"erase", "erase_pos", "erase_range"}
                     /\ SlotState(Self, i) = "live"
                     /\ SlotState(Self', i) = "tombstoned"
                     /\ hash_map'[i] = hash_map[i]
                  \/ /\ last'.op = "insert"
                     /\ SlotState(Self, i) \in {"empty", "tombstoned"}
                     /\ SlotState(Self', i) = "live"
      ]_vars

\* an erase by key has just turned a live slot into a tombstone
C11_Witness ==
    /\ last.op = "erase" /\ last.ret = 1 /\ fault = "none"
    /\ SlotState(Self, last.ind) = "tombstoned"

\* C12: on a table of zero physical capacity rehash(0) gives capacity_hint 2
\* and physical length 4, and an insertion runs that rehash and succeeds with
\* size() = 1.
C12_ZeroCapacity ==
    [][ (VecSize(hash_map) = 0 /\ fault = "none") =>
          /\ (last'.op = "rehash" /\ last'.arg = 0) =>
                 /\ map_max_size' = 2
                 /\ VecSize(hash_map') = 4 /\ VecSize(deleted') = 4
                 /\ map_size' = 0
          /\ last'.op = "insert" =>
                 /\ fault' = "none"
                 /\ last'.rehashes = 1 /\ last'.ret = 1
                 /\ map_max_size' = 2
                 /\ VecSize(hash_map') = 4 /\ VecSize(deleted') = 4
                 /\ map_size' = 1
                 /\ contains(Self', last'.arg)
      ]_vars

\* the first insertion into a table constructed with hint 0
C12_Witness ==
    /\ fresh.pure /\ fresh.hint = 0 /\ fault = "none"
    /\ last.op = "insert" /\ last.rehashes = 1
    /\ map_size = 1 /\ VecSize(hash_map) = 4

\* C13: at(k) returns, throwing out_of_range when no live slot holds k and
\* giving the value stored with k when one does.
C13_AtContract ==
    fault = "none" =>
        \A k \in Keys :
            /\ at(Self, k).fault = "none"
            /\ IF HoldsKey(Self, k)
               THEN /\ ~at(Self, k).thrown
                    /\ \E i \in LiveSlots(Self) :
                           hash_map[i].key = k /\ hash_map[i].val = at(Self, k).val
               ELSE at(Self, k).thrown

\* 1 + 4 + ... + n^2
SumSquares(n) == (n * (n + 1) * (2 * n + 1)) \div 6

\* C14: the n-th advance of QuadraticProbing(s, m) returns (s + 1 + 4 + ... + n^2) mod m
\* (for m = 8: s+1, s+5, s+14, s+30 mod 8), that of LinearProbing(s, m) returns (s + n) mod m.
C14_ProbeSequence ==
    last.op = "policy" =>
        /\ policy = "linear" =>
               probe.ret = (probe.start + probe.advances) % probe.obj.mod
        /\ policy = "quadratic" =>
               probe.ret = (probe.start + SumSquares(probe.advances)) % probe.obj.mod
        /\ (policy = "quadratic" /\ probe.obj.mod = 8 /\ probe.advances \in 1..4) =>
               probe.ret = (probe.start + <<1, 5, 14, 30>>[probe.advances]) % 8
        /\ probe.ret = probe.obj.current

\* the fourth candidate of a quadratic policy over modulus 8
C14_Witness ==
    /\ last.op = "policy" /\ policy = "quadratic"
    /\ probe.obj.mod = 8 /\ probe.advances = 4
    /\ probe.ret = (probe.start + 30) % 8

\* C15: hash_map and deleted both have length 2 * map_max_size, and once an
\* element has been inserted that length is even and at least 2.
C15_PhysicalLength ==
    /\ DOMAIN hash_map = 0..(2 * map_max_size - 1)
    /\ DOMAIN deleted = 0..(2 * map_max_size - 1)
    /\ VecSize(hash_map) = 2 * max_size(Self)
    /\ VecSize(deleted) = 2 * max_size(Self)
    /\ (last.op = "insert" \/ map_size > 0 \/ \E i \in DOMAIN hash_map : hash_map[i].occ) =>
           (VecSize(hash_map) >= 2 /\ VecSize(hash_map) % 2 = 0)

\* an insertion has just grown the table to its largest length
C15_Witness ==
    /\ last.op = "insert" /\ last.ret = 1 /\ last.rehashes = 1
    /\ map_max_size = 5 /\ VecSize(hash_map) = 10 /\ VecSize(deleted) = 10

\* C16: the key of every live slot is found by lookup, at a live slot holding it.
C16_LiveKeysFindable ==
    fault = "none" =>
        \A i \in LiveSlots(Self) :
            LET r == find(Self, hash_map[i].key)
            IN  /\ r.fault = "none"
                /\ r.ind # end(Self)
                /\ IsLive(Self, r.ind)
                /\ hash_map[r.ind].key = hash_map[i].key

\* the resolve an insertion of k runs: find_index(k, true) after check_fullness
InsertResolve(k) == find_index(check_fullness(Self), k, TRUE)

\* the slot an insertion resolve may return for k: empty, tombstoned, or live with k
Usable(t, i, k) ==
    \/ ~t.hash_map[i].occ
    \/ t.deleted[i]
    \/ map_equal(t.hash_map[i].key, k)

\* C17: with LinearProbing the insertion resolve of any key returns within
\* physical_length probes, at a slot that is empty, tombstoned or live with the key.
C17_LinearResolve ==
    (fault = "none" /\ policy = "linear") =>
        \A k \in Keys :
            /\ check_fullness(Self).fault = "none"
            /\ InsertResolve(k).fault = "none"
            /\ InsertResolve(k).probes <= VecSize(check_fullness(Self).hash_map)
            /\ InsertResolve(k).ind \in DOMAIN check_fullness(Self).hash_map
            /\ Usable(check_fullness(Self), InsertResolve(k).ind, k)

\* an insertion that walked past its starting slot without a rehash
C17_Witness ==
    /\ policy = "linear" /\ fault = "none"
    /\ last.op = "insert" /\ last.ret = 1 /\ last.rehashes = 0
    /\ last.ind # map_hasher(last.arg) % VecSize(hash_map)

FreeOffsets(t, k) ==
    {n \in 0..(VecSize(t.hash_map) - 1) :
        ~IsLive(t, (map_hasher(k) + n) % VecSize(t.hash_map))}

\* C19: an insertion of a key no live slot holds installs it at the first
\* index of its probing sequence whose slot is empty or tombstoned, clears
\* that slot's tombstone flag and increases live_count by one; the slots
\* visited before it are live with other keys.
C19_InsertPosition ==
    [][ (last'.op = "insert" /\ fault' = "none" /\ ~HoldsKey(Self, last'.arg)) =>
        LET k  == last'.arg
            t1 == check_fullness(Self)
            m  == VecSize(t1.hash_map)
        IN  /\ FreeOffsets(t1, k) # {}
            /\ LET n0 == CHOOSE n \in FreeOffsets(t1, k) : \A x \in FreeOffsets(t1, k) : n <= x
               IN  /\ last'.ret = 1
                   /\ last'.ind = (map_hasher(k) + n0) % m
                   /\ hash_map'[last'.ind].occ /\ hash_map'[last'.ind].key = k
                   /\ ~deleted'[last'.ind]
                   /\ \A n \in 0..(n0 - 1) :
                          /\ IsLive(t1, (map_hasher(k) + n) % m)
                          /\ t1.hash_map[(map_hasher(k) + n) % m].key # k
            /\ map_size' = map_size + 1
      ]_vars

\* C20: size() equals the number of slots that are occupied and not tombstoned.
C20_SizeCountsLiveSlots ==
    map_size = Cardinality(LiveSlots(Self))

\* a range erase has just tombstoned two elements and left another live
C20_Witness ==
    /\ last.op = "erase_range" /\ fault = "none"
    /\ Cardinality({i \in DOMAIN hash_map :
                       last.arg <= i /\ i < last.ind /\ SlotState(Self, i) = "tombstoned"}) = 2
    /\ map_size >= 1

\* C21: an insertion whose key is already live returns inserted = false, runs
\* no rehash and leaves every data member as it was.
C21_DuplicateInsertFrame ==
    [][ (last'.op = "insert" /\ fault = "none" /\ HoldsKey(Self, last'.arg)) =>
            /\ fault' = "none"
            /\ last'.ret = 0
            /\ last'.rehashes = 0
            /\ Self' = Self
      ]_vars

\* the occupied slots of t, live or tombstoned
OccupiedSlots(t) == {i \in DOMAIN t.hash_map : t.hash_map[i].occ}

\* the smallest index the set s holds, or otherwise
SmallestOr(s, otherwise) ==
    IF s = {} THEN otherwise ELSE CHOOSE i \in s : \A j \in s : i <= j

\* t is as the claim says a table is right after a rehash
FreshlyRehashed(t) ==
    /\ t.fault = "none"
    /\ \A i \in OccupiedSlots(t) : ~t.deleted[i]
    /\ Cardinality(OccupiedSlots(t)) = size(t)
    /\ t.first_ind = SmallestOr(OccupiedSlots(t), VecSize(t.hash_map))

\* C22: right after any rehash every occupied slot is live, the number of
\* occupied slots is size(), and first_ind is the smallest occupied index, or
\* the physical length when nothing was migrated.
C22_RehashLeavesNoTombstones ==
    fault = "none" =>
        /\ \A count \in (0..MaxCount) \cup {map_max_size * 2} : FreshlyRehashed(rehash(Self, count))
        /\ (last.op \in {"rehash", "reserve"} /\ last.rehashes = 1) => FreshlyRehashed(Self)

\* an explicit rehash has just run on a table that had seen two erasures and kept an element
C22_Witness ==
    /\ last.op = "rehash" /\ last.rehashes = 1 /\ fault = "none"
    /\ erases = 2 /\ map_size >= 1
    /\ FreshlyRehashed(Self)

\* C23: reserve(n) rehashes iff n > 2 * size() + 2; it then sets map_max_size
\* to n + 1 (physical length 2n + 2), so that no insertion at a size below n
\* meets the growth threshold; otherwise it leaves every data member as it was.
C23_ReserveThreshold ==
    [][ (last'.op = "reserve" /\ fault = "none") =>
            IF last'.arg > 2 * map_size + 2
            THEN /\ fault' = "none"
                 /\ last'.rehashes = 1
                 /\ map_max_size' = last'.arg + 1
                 /\ VecSize(hash_map') = 2 * last'.arg + 2
                 /\ VecSize(deleted') = 2 * last'.arg + 2
                 /\ map_size' <= last'.arg
                 /\ \A s \in 0..(last'.arg - 1) :
                        ~FracGE(load_factor([Self' EXCEPT !.map_size = s]), max_load_factor)
            ELSE /\ last'.rehashes = 0
                 /\ Self' = Self
      ]_vars

\* a reserve that rehashed
C23_Witness ==
    /\ last.op = "reserve" /\ last.rehashes = 1 /\ fault = "none"
    /\ map_max_size = last.arg + 1

\* the smallest live index greater than i, or the physical length
NextLive(t, i) == SmallestOr({j \in LiveSlots(t) : j > i}, VecSize(t.hash_map))

\* C24: erase(pos) at a live slot returns the smallest live index greater than
\* pos, or end(); advancing an iterator at any slot gives the smallest greater
\* live index, or the physical length; erase(first, last) tombstones exactly
\* the live elements of [first, last) and returns last.
C24_EraseAndAdvance ==
    [][ fault' = "none" =>
          /\ \A i \in DOMAIN hash_map' : Advance(Self', i) = NextLive(Self', i)
          /\ last'.op = "erase_pos" =>
                 /\ last'.ret = NextLive(Self, last'.arg)
                 /\ last'.ret = NextLive(Self', last'.arg)
                 /\ (last'.ret = end(Self') \/ IsLive(Self', last'.ret))
          /\ last'.op = "erase_range" =>
                 /\ last'.ret = last'.ind
                 /\ hash_map' = hash_map
                 /\ \A i \in DOMAIN hash_map :
                        deleted'[i] = (deleted[i] \/ (IsLive(Self, i) /\ last'.arg <= i /\ i < last'.ind))
      ]_vars

\* erase(pos) has just returned an iterator at a live slot beyond a slot that is not live
C24_Witness ==
    /\ last.op = "erase_pos" /\ fault = "none"
    /\ last.ret > last.arg + 1
    /\ last.ret < VecSize(hash_map)
    /\ IsLive(Self, last.ret)

\* C25: on a table of zero physical capacity a lookup (find, contains, count,
\* erase by key) reports absent at once, without hashing or probing, and
\* leaves the table as it was.
C25_ZeroCapacityLookup ==
    (VecSize(hash_map) = 0 /\ fault = "none") =>
        \A k \in Keys :
            /\ find(Self, k) = [ind |-> end(Self), probes |-> 0, fault |-> "none"]
            /\ ~contains(Self, k)
            /\ erase_key(Self, k).ret = 0
            /\ erase_key(Self, k).t = Self
            /\ (last.op \in {"find", "erase"} /\ last.arg = k) => last.ret = 0

\* a lookup has just returned on a table of zero capacity
C25_Witness ==
    /\ VecSize(hash_map) = 0 /\ fault = "none"
    /\ last.op = "find" /\ last.ret = 0 /\ last.ind = end(Self)

\* C26: clear() leaves every slot empty, size() = 0, and map_max_size and the
\* physical length as they were; afterwards every key is reported absent and
\* an insertion of any key succeeds with size() = 1.
C26_ClearResets ==
    [][ (last'.op = "clear" /\ fault = "none") =>
          /\ fault' = "none"
          /\ OccupiedSlots(Self') = {}
          /\ map_size' = 0
          /\ map_max_size' = map_max_size
          /\ DOMAIN hash_map' = DOMAIN hash_map
          /\ DOMAIN deleted' = DOMAIN deleted
          /\ \A k \in Keys :
                 /\ find(Self', k).fault = "none"
                 /\ ~contains(Self', k)
                 /\ \A v \in Vals :
                        /\ emplace_impl(Self', k, v).inserted
                        /\ emplace_impl(Self', k, v).t.fault = "none"
                        /\ size(emplace_impl(Self', k, v).t) = 1
                        /\ contains(emplace_impl(Self', k, v).t, k)
      ]_vars

\* clear() has just run on a table that had grown to its largest length
C26_Witness ==
    /\ last.op = "clear" /\ fault = "none"
    /\ VecSize(hash_map) = 10 /\ map_size = 0
    /\ OccupiedSlots(Self) = {}

\* C27: a HashSet given the same calls as the HashMap, with the same keys,
\* hasher, policy and hint, has after every call the same size, capacity hint
\* and first index, and slot by slot the same occupancy, key and tombstone flag.
C27_SameEngine ==
    /\ hset.set_size = map_size
    /\ hset.set_max_size = map_max_size
    /\ hset.first_ind = first_ind
    /\ hset.fault = fault
    /\ hset.deleted = deleted
    /\ DOMAIN hset.hash_set = DOMAIN hash_map
    /\ \A i \in DOMAIN hash_map :
           /\ hset.hash_set[i].occ = hash_map[i].occ
           /\ hset.hash_set[i].key = hash_map[i].key

\* both containers have grown, hold an element and carry a tombstone left by a range erase
C27_Witness ==
    /\ last.op = "erase_range" /\ fault = "none"
    /\ hset.set_max_size = 5 /\ hset.set_size >= 1
    /\ \E i \in DOMAIN hset.hash_set : hset.hash_set[i].occ /\ hset.deleted[i]

\* the (key, value) pairs a table holds in live slots
Contents(t) == {<<t.hash_map[i].key, t.hash_map[i].val>> : i \in LiveSlots(t)}

\* second operands of a comparison: tables constructed with a hint and given at most one insertion
Others ==
    {HashMap(h) : h \in 0..1}
        \cup {emplace_impl(HashMap(h), k, v).t : h \in 0..1, k \in Keys, v \in Vals}

\* C28: operator== returns true iff both maps hold the same keys with the same
\* value for each key, whatever their layout, capacity and tombstones.
C28_EqualityComparesContents ==
    fault = "none" =>
        \A o \in Others :
            /\ operator_eq(Self, o).fault = "none"
            /\ operator_eq(Self, o).ret <=> (Contents(Self) = Contents(o))

====
